---- MODULE Spec2Model ----
(***************************************************************************)
(* The request dispatch pipeline of the API gateway service (src/index.js): *)
(* route table construction (created, createRoute), dispatch (httpHandler), *)
(* the promise chain of callAction with its single catch handler, and the   *)
(* two helpers checkWhitelist and resolveAlias.                             *)
(*                                                                         *)
(* A JavaScript string is a sequence of tokens.  A token stands for a run   *)
(* of characters that no operation of the gateway splits ("/", "~", "?",    *)
(* "users", ...); no token is a prefix of another one.  undefined/null is   *)
(* the empty sequence None and a present value v is Some(v).  A plain       *)
(* object is a function from keys (strings) to values.                      *)
(***************************************************************************)
EXTENDS Integers, Sequences, FiniteSets, TLC

\* ------------------------------------------------------------------------
\* JavaScript values and string operations
\* ------------------------------------------------------------------------

None == <<>>

Some(v) == <<v>>

EmptyObject == [k \in {} |-> <<>>]

\* Object.assign(target, source) on plain objects: the source's keys win.
ObjectAssign(target, source) ==
    [k \in (DOMAIN target) \cup (DOMAIN source) |->
        IF k \in DOMAIN source THEN source[k] ELSE target[k]]

\* String.prototype.startsWith
StartsWith(s, p) == Len(p) <= Len(s) /\ SubSeq(s, 1, Len(p)) = p

\* String.prototype.endsWith, for a one-token suffix
EndsWith(s, c) == Len(s) > 0 /\ s[Len(s)] = c

\* String.prototype.slice(n), n >= 0
SliceFrom(s, n) == SubSeq(s, n + 1, Len(s))

\* String.prototype.slice(0, -1)
DropLast(s) == SubSeq(s, 1, Len(s) - 1)

\* String.prototype.substring(0, n)
Substring(s, n) == SubSeq(s, 1, n)

\* String.prototype.indexOf(c, from): 0-based index of the first c at or
\* after position from, -1 when there is none.
IndexOf(s, c, from) ==
    LET hits == {i \in (from + 1)..Len(s) : s[i] = c}
    IN  IF hits = {} THEN -1
        ELSE (CHOOSE i \in hits : \A j \in hits : i <= j) - 1

\* String.prototype.replace(/a/, b): the first occurrence only.
ReplaceFirst(s, a, b) ==
    LET i == IndexOf(s, a, 0)
    IN  IF i = -1 THEN s ELSE [s EXCEPT ![i + 1] = b]

\* String.prototype.replace(/a/g, b): every occurrence.
ReplaceAll(s, a, b) == [i \in 1..Len(s) |-> IF s[i] = a THEN b ELSE s[i]]

\* String.prototype.split(sep) for a one-token separator.
RECURSIVE Split(_, _)
Split(s, sep) ==
    LET i == IndexOf(s, sep, 0)
    IN  IF i = -1 THEN <<s>>
        ELSE <<Substring(s, i)>> \o Split(SliceFrom(s, i + 1), sep)

\* querystring.parse: "k=v" pairs separated by "&"; a pair without "=" has
\* the empty string as value, an empty pair is skipped, and a repeated key
\* collects its values in an array (written here as the values joined by the
\* token ",").
RECURSIVE ParsePairs(_, _)
ParsePairs(pairs, acc) ==
    IF pairs = <<>> THEN acc
    ELSE LET p  == Head(pairs)
             eq == IndexOf(p, "=", 0)
             k  == IF eq = -1 THEN p ELSE Substring(p, eq)
             v  == IF eq = -1 THEN <<>> ELSE SliceFrom(p, eq + 1)
         IN  IF p = <<>> THEN ParsePairs(Tail(pairs), acc)
             ELSE IF k \in DOMAIN acc
                  THEN ParsePairs(Tail(pairs),
                                  [acc EXCEPT ![k] = acc[k] \o <<",">> \o v])
                  ELSE ParsePairs(Tail(pairs), ObjectAssign(acc, k :> v))

queryStringParse(s) == ParsePairs(Split(s, "&"), EmptyObject)

\* ------------------------------------------------------------------------
\* Route table construction
\* ------------------------------------------------------------------------

\* Tokens that are not word characters (\w) of a regular expression.
Punctuation == {"/", ".", "~", "$", "?", "&", "=", "*", " ", ","}

\* The enumerable own properties every plain object inherits from
\* Object.prototype; obj[k] finds them when obj has no own property k.
ObjectPrototypeKeys ==
    {<<"constructor">>, <<"toString">>, <<"valueOf">>, <<"hasOwnProperty">>}

\* The (function) value of Object.prototype[k]; it is no string.
ObjectPrototypeMember(k) == <<"function", " ">> \o k

\* obj[k] on a plain object: own property, else inherited, else undefined.
GetProperty(obj, k) ==
    IF k \in DOMAIN obj THEN Some(obj[k])
    ELSE IF k \in ObjectPrototypeKeys THEN Some(ObjectPrototypeMember(k))
    ELSE None

\* JavaScript truthiness of an optional string: undefined and "" are falsy.
Truthy(v) == v # None /\ v[1] # <<>>

\* createRoute, lines 198-209: one parser per key of opts.bodyParsers whose
\* value is not false, in key order; route.parsers stays undefined when the
\* route configures no bodyParsers.
CreateParsers(bps) ==
    LET F[i \in 0..Len(bps)] ==
            IF i = 0 THEN <<>>
            ELSE IF bps[i].value # "false"
                 THEN Append(F[i - 1], [type |-> bps[i].key])
                 ELSE F[i - 1]
    IN  F[Len(bps)]

createRoute(settings, opts) ==
    LET path == settings.path \o opts.path
    IN  [ opts          |-> opts,
          authorization |-> opts.authorization,
          whitelist     |-> opts.whitelist,
          hasWhitelist  |-> opts.whitelist # None,
          aliases       |-> opts.aliases,
          hasAliases    |-> opts.aliases # None
                            /\ DOMAIN opts.aliases[1] # {},
          parsers       |-> IF opts.bodyParsers # None
                            THEN Some(CreateParsers(opts.bodyParsers[1]))
                            ELSE None,
          path          |-> IF path = <<>> THEN <<"/">> ELSE path ]

\* created(), lines 169-172: the route table, in declaration order.
CreateRoutes(settings) ==
    [i \in 1..Len(settings.routes) |-> createRoute(settings, settings.routes[i])]

\* ------------------------------------------------------------------------
\* Whitelist and aliases
\* ------------------------------------------------------------------------

\* nanomatch.isMatch(str, pattern, {unixify: false}): every token matches
\* itself and "*" matches any run of tokens without a "/".
RECURSIVE GlobMatch(_, _)
GlobMatch(str, pat) ==
    IF pat = <<>> THEN str = <<>>
    ELSE IF Head(pat) = "*"
         THEN \E k \in 0..Len(str) :
                  /\ \A i \in 1..k : str[i] # "/"
                  /\ GlobMatch(SliceFrom(str, k), Tail(pat))
         ELSE /\ str # <<>>
              /\ Head(str) = Head(pat)
              /\ GlobMatch(Tail(str), Tail(pat))

\* RegExp.prototype.test for the masks of the form /^<pattern>\w+$/ (such as
\* /^math\.\w+$/ of the example settings).
RegExpTest(mask, str) ==
    /\ Len(str) > Len(mask.pattern)
    /\ StartsWith(str, mask.pattern)
    /\ \A i \in (Len(mask.pattern) + 1)..Len(str) : str[i] \notin Punctuation

\* The callback of checkWhitelist's find, lines 505-510.
MaskMatches(mask, action) ==
    IF mask.type = "string" THEN GlobMatch(action, mask.pattern)
    ELSE IF mask.type = "regexp" THEN RegExpTest(mask, action)
    ELSE FALSE

\* find that looks at the first mask only.
FindMaskFirstOnly(whitelist, action) ==
    IF whitelist # <<>> /\ MaskMatches(whitelist[1], action) THEN 1 ELSE 0

\* Array.prototype.find: the first index whose mask matches, 0 for none.
FindMask(whitelist, action) ==
    LET hits == {i \in 1..Len(whitelist) : MaskMatches(whitelist[i], action)}
    IN  IF hits = {} THEN 0 ELSE CHOOSE i \in hits : \A j \in hits : i <= j

\* checkWhitelist with find(...) !== null: find's undefined is not null.
checkWhitelistStrict(route, action) == FindMask(route.whitelist[1], action) >= 0

\* checkWhitelist, lines 504-511.
checkWhitelist(route, action) == FindMask(route.whitelist[1], action) # 0

\* resolveAlias, lines 521-527; method is optional and defaults to "GET".
resolveAlias(route, actionName, method) ==
    LET m     == IF method = None THEN "GET" ELSE method[1]
        match == <<m, " ">> \o actionName
        first == GetProperty(route.aliases[1], match)
        res   == IF Truthy(first) THEN first
                 ELSE GetProperty(route.aliases[1], actionName)
    IN  IF Truthy(res) THEN res[1] ELSE actionName

\* ------------------------------------------------------------------------
\* Settings, the broker's registry and the inputs of the model
\* ------------------------------------------------------------------------

StringMask(pattern) == [type |-> "string", pattern |-> pattern]

RegExpMask(pattern) == [type |-> "regexp", pattern |-> pattern]

\* A whitelist entry that is neither a string nor a regular expression.
OtherMask == [type |-> "number", pattern |-> <<>>]

\* The example settings of the header comment (lines 27-107) without the
\* global path and the assets folder, with two more routes: one without
\* whitelist whose only body parser is switched off, and one that asks for
\* authorization but has neither whitelist nor body parsers.
ExampleSettings ==
    [ path   |-> <<>>,
      assets |-> FALSE,
      routes |-> <<
        [ path          |-> <<"/", "admin">>,
          whitelist     |-> Some(<< StringMask(<<"users", ".", "*">>),
                                    StringMask(<<"$", "node", ".", "*">>) >>),
          authorization |-> TRUE,
          aliases       |-> Some(
              (<<"POST", " ", "users">> :> <<"users", ".", "create">>)
              @@ (<<"health">> :> <<"$", "node", ".", "health">>)),
          bodyParsers   |-> Some(<< [key |-> "json", value |-> "true"],
                                    [key |-> "urlencoded", value |-> "object"] >>) ],
        [ path          |-> <<"/", "open">>,
          whitelist     |-> None,
          authorization |-> FALSE,
          aliases       |-> None,
          bodyParsers   |-> Some(<< [key |-> "json", value |-> "false"] >>) ],
        [ path          |-> <<"/", "pub">>,
          whitelist     |-> None,
          authorization |-> TRUE,
          aliases       |-> None,
          bodyParsers   |-> None ],
        [ path          |-> <<>>,
          whitelist     |-> Some(<< StringMask(<<"posts", ".", "*">>),
                                    OtherMask,
                                    RegExpMask(<<"math", ".">>) >>),
          authorization |-> FALSE,
          aliases       |-> Some(
              (<<"add">> :> <<"math", ".", "add">>)
              @@ (<<"GET", " ", "sub">> :> <<"math", ".", "sub">>)),
          bodyParsers   |-> Some(<< [key |-> "json", value |-> "true"] >>) ]
      >> ]

\* The actions the broker knows (broker.getAction), each with its optional
\* parameter schema (the keys it requires) and optional responseType.
BrokerActions ==
    (<<"users", ".", "create">> :>
        [params |-> Some({<<"name">>}), responseType |-> None])
    @@ (<<"users", ".", "get">> :>
        [params |-> None, responseType |-> Some(<<"text/plain">>)])
    @@ (<<"$", "node", ".", "health">> :>
        [params |-> None, responseType |-> None])
    @@ (<<"posts", ".", "list">> :>
        [params |-> Some({<<"x">>}), responseType |-> None])
    @@ (<<"math", ".", "add">> :>
        [params |-> None, responseType |-> Some(<<"text/plain">>)])

\* broker.validator is configured.
BrokerHasValidator == TRUE

\* The request URLs of the pipeline specification.
RequestUrls ==
    { <<"/">>,
      <<"/", "admin">>,
      <<"/", "admin", "/", "users">>,
      <<"/", "admin", "/", "users", "/", "get", "?", "apikey", "=", "k1">>,
      <<"/", "admin", "/", "~", "node", "/", "health", "/">>,
      <<"/", "admin", "/", "health">>,
      <<"/", "admin", "/", "posts", "/", "list">>,
      <<"/", "open", "/", "users", "/", "get", "?", "x", "=", "1">>,
      <<"/", "open", "/", "nothing">>,
      <<"/", "open", "/", "~", "node", "/", "~", "x", "/", "?", "x", "=", "1">>,
      <<"/", "pub", "/", "posts", "/", "list", "?", "x", "=", "1", "&", "apikey", "=", "k1">>,
      <<"/", "posts", "/", "list", "?", "x", "=", "1">>,
      <<"/", "add">>,
      <<"/", "sub">>,
      <<"/", "comments", "/", "list">> }

RequestMethods == {"GET", "POST", "PUT", "PATCH", "DELETE"}

\* The apikey header of a request: absent or present.
ApiKeyHeaders == {None, Some(<<"k2">>)}

\* What a body parser can leave in req.body when it parses the body.
ParsedBodies ==
    { <<"name">> :> <<"a">>,
      (<<"x">> :> <<"2">>) @@ (<<"y">> :> <<"3">>) }

\* ------------------------------------------------------------------------
\* Errors, contexts and the HTTP response object
\* ------------------------------------------------------------------------

\* An error object: name, message, code (None when it is no number), data,
\* ctx (the id of the context it carries, if any) and whether JSON.stringify
\* accepts its data.
MakeError(name, message, code, data, c, serializable) ==
    [ name |-> name, message |-> message, code |-> code, data |-> data,
      ctx |-> c, serializable |-> serializable ]

\* moleculer's ServiceNotFoundError(message, action).
ServiceNotFoundError(action) ==
    MakeError("ServiceNotFoundError",
              <<"Action '">> \o action \o <<"' is not available!">>,
              Some(404), Some([action |-> action]), None, TRUE)

\* moleculer's CustomError(message, code).
CustomError(message, code) ==
    MakeError("CustomError", message, Some(code), None, None, TRUE)

\* moleculer's ValidationError, thrown by broker.validator.validate.
ValidationError(missing) ==
    MakeError("ValidationError", <<"Parameters validation error!">>,
              Some(422), Some([missing |-> missing]), None, TRUE)

\* ./errors: InvalidRequestBodyError(body, error), line 347.
InvalidRequestBodyError(body, message) ==
    MakeError("InvalidRequestBodyError", <<"Invalid request body">>,
              Some(400), Some([body |-> body, error |-> message]), None, TRUE)

\* ./errors: InvalidResponseType(dataType), line 468.
InvalidResponseType(dataType) ==
    MakeError("InvalidResponseType",
              <<"Invalid response type '", dataType, "'">>,
              Some(500), Some([dataType |-> dataType]), None, TRUE)

\* What ctx._metricFinish throws when the emit of the metrics event fails.
MetricError ==
    MakeError("Error", <<"metrics emit failed">>, None, None, None, TRUE)

\* The ways a call through the broker (ctx.call) can fail: with a numeric
\* HTTP code, with a code that is no number, with a numeric code that is no
\* HTTP status, and with data that JSON.stringify rejects (a cycle).  The
\* broker attaches the context to the errors it raises itself.
CallErrors(id) ==
    { MakeError("MoleculerError", <<"failed">>, Some(500), None, Some(id), TRUE),
      MakeError("Error", <<"failed">>, None, None, Some(id), TRUE),
      MakeError("MongoError", <<"failed">>, Some(0), None, Some(id), TRUE),
      MakeError("MoleculerError", <<"failed">>, Some(500), Some([cycle |-> TRUE]),
                None, FALSE) }

\* The failure a body parser reports to its callback: err.body, err.message.
ParserError(parser) ==
    [body |-> <<"raw body">>, message |-> <<parser.type, " parse failed">>]

\* The values an action can return, by the type tests of the encoder:
\* data == null, Buffer.isBuffer, _.isObject, data.type == "Buffer",
\* isStream, _.isString, typeof, and whether Buffer.from / JSON.stringify
\* accept the value.
MakeData(kind, isBuffer, isObject, typeIsBuffer, isStream, isString, ok) ==
    [ kind |-> kind, isNull |-> kind = "null", isBuffer |-> isBuffer,
      isObject |-> isObject, typeIsBuffer |-> typeIsBuffer,
      isStream |-> isStream, isString |-> isString, encodable |-> ok ]

DataValues ==
    { MakeData("null",     FALSE, FALSE, FALSE, FALSE, FALSE, TRUE),
      MakeData("buffer",   TRUE,  TRUE,  FALSE, FALSE, FALSE, TRUE),
      MakeData("envelope", FALSE, TRUE,  TRUE,  FALSE, FALSE, TRUE),
      MakeData("envelope", FALSE, TRUE,  TRUE,  FALSE, FALSE, FALSE),
      MakeData("stream",   FALSE, TRUE,  FALSE, TRUE,  FALSE, TRUE),
      MakeData("object",   FALSE, TRUE,  FALSE, FALSE, FALSE, TRUE),
      MakeData("object",   FALSE, TRUE,  FALSE, FALSE, FALSE, FALSE),
      MakeData("string",   FALSE, FALSE, FALSE, FALSE, TRUE,  TRUE),
      MakeData("number",   FALSE, FALSE, FALSE, FALSE, FALSE, TRUE) }

\* typeof data
TypeOf(data) ==
    IF data.isString THEN "string"
    ELSE IF data.kind = "number" THEN "number"
    ELSE "object"

\* The identities auth.resolveUser can return; None is "no user".
Users == {None, Some(<<"alice">>)}

\* A context that was not created yet, and the one createNewContext returns.
NoContext ==
    [ id |-> None, params |-> EmptyObject, meta |-> EmptyObject,
      requestID |-> None, metricStart |-> 0, metricFinish |-> 0 ]

\* A ServerResponse before anything is written.
FreshResponse ==
    [ statusCode |-> 200, headers |-> EmptyObject, headersSent |-> FALSE,
      finished |-> FALSE, piped |-> "no", body |-> [kind |-> "none"] ]

\* res.setHeader(name, value); header names are case-insensitive.
ResSetHeader(rs, name, value) ==
    [rs EXCEPT !.headers = ObjectAssign(@, name :> value)]

\* res.writeHead throws once the header is sent and for a status code that
\* is no three-digit number.
ResWriteHeadThrows(rs, code) == rs.headersSent \/ code < 100 \/ code > 999

\* res.writeHead(code, headers)
ResWriteHead(rs, code, headers) ==
    [rs EXCEPT !.statusCode = code, !.headers = ObjectAssign(@, headers),
               !.headersSent = TRUE]

\* res.end(body): sends header and body; does nothing on a finished response.
ResEnd(rs, body) ==
    IF rs.finished THEN rs
    ELSE [rs EXCEPT !.headersSent = TRUE, !.finished = TRUE, !.body = body]

\* ------------------------------------------------------------------------
\* State
\* ------------------------------------------------------------------------

\* The requests of the model.  The pipeline specification Spec follows the
\* first request through every stage with all the inputs above.
NumRequests == 2

Requests == 1..NumRequests

VARIABLES
    routes,      \* this.routes: the route table built by created()
    serve,       \* this.serve: whether the static middleware exists
    pc,          \* per request: the stage of callAction's chain that is next
    req,         \* per request: method, url, headers, body, _body
    res,         \* per request: the ServerResponse
    route,       \* per request: index in routes of the matched route, or 0
    actionName,  \* per request: callAction's actionName
    query,       \* per request: the parsed query string, None when undefined
    params,      \* per request: callAction's params
    endpoint,    \* per request: callAction's endpoint, None when undefined
    ctx,         \* per request: the context of createNewContext
    pending,     \* per request: the value or the error the chain carries
    parsing,     \* per request: index of the body parser that is running
    events       \* per request: what happened so far, in time order

vars == << routes, serve, pc, req, res, route, actionName, query, params,
           endpoint, ctx, pending, parsing, events >>

service == << routes, serve >>

NoRequest ==
    [ method |-> "", url |-> <<>>, headers |-> [apikey |-> None],
      body |-> None, _body |-> FALSE ]

Event(ev, arg) == [ev |-> ev, arg |-> arg]

\* created(), lines 162-172, for the given settings.
InitWith(settings) ==
    /\ routes = CreateRoutes(settings)
    /\ serve = settings.assets
    /\ pc = [r \in Requests |-> "idle"]
    /\ req = [r \in Requests |-> NoRequest]
    /\ res = [r \in Requests |-> FreshResponse]
    /\ route = [r \in Requests |-> 0]
    /\ actionName = [r \in Requests |-> <<>>]
    /\ query = [r \in Requests |-> None]
    /\ params = [r \in Requests |-> EmptyObject]
    /\ endpoint = [r \in Requests |-> None]
    /\ ctx = [r \in Requests |-> NoContext]
    /\ pending = [r \in Requests |-> None]
    /\ parsing = [r \in Requests |-> 0]
    /\ events = [r \in Requests |-> <<>>]

\* ------------------------------------------------------------------------
\* httpHandler
\* ------------------------------------------------------------------------

\* Lines 246-252: the URL up to the first "?" found from index 1 on.
UrlPath(url) ==
    LET questionIdx == IndexOf(url, "?", 1)
    IN  IF questionIdx = -1 THEN url ELSE Substring(url, questionIdx)

\* Lines 246-252: the parsed query, undefined when the URL has no "?".
UrlQuery(url) ==
    LET questionIdx == IndexOf(url, "?", 1)
    IN  IF questionIdx = -1 THEN None
        ELSE Some(queryStringParse(SliceFrom(url, questionIdx + 1)))

\* Lines 255-256: trim one trailing slash.
TrimTrailingSlash(url) == IF EndsWith(url, "/") THEN DropLast(url) ELSE url

\* Lines 259-267: index of the first route whose path the URL starts with,
\* 0 when there is none.
MatchRoute(rts, url) ==
    LET hits == {i \in 1..Len(rts) : StartsWith(url, rts[i].path)}
    IN  IF hits = {} THEN 0 ELSE CHOOSE i \in hits : \A j \in hits : i <= j

\* Lines 270-274 with every "~" replaced.
ResolveActionNameAllTildes(path, url) ==
    LET rest == SliceFrom(url, Len(path))
        name == IF StartsWith(rest, <<"/">>) THEN SliceFrom(rest, 1) ELSE rest
    IN  ReplaceAll(ReplaceAll(name, "~", "$"), "/", ".")

\* Lines 270-274: the action name of a URL under a route path.
ResolveActionName(path, url) ==
    LET rest == SliceFrom(url, Len(path))
        name == IF StartsWith(rest, <<"/">>) THEN SliceFrom(rest, 1) ELSE rest
    IN  ReplaceAll(ReplaceFirst(name, "~", "$"), "/", ".")

\* send404, lines 226-229.
send404(rs) == ResEnd(ResWriteHead(rs, 404, EmptyObject), [kind |-> "Not found"])

\* httpHandler, lines 238-300, for a request that arrives with the given
\* method, URL and apikey header.
httpHandler(r, method, rawUrl, apikey) ==
    LET url == TrimTrailingSlash(UrlPath(rawUrl))
        i   == MatchRoute(routes, url)
    IN  /\ pc[r] = "idle"
        /\ req' = [req EXCEPT ![r] = [ method |-> method, url |-> rawUrl,
                                       headers |-> [apikey |-> apikey],
                                       body |-> None, _body |-> FALSE ]]
        /\ query' = [query EXCEPT ![r] = UrlQuery(rawUrl)]
        /\ route' = [route EXCEPT ![r] = i]
        /\ IF i # 0
           THEN /\ actionName' = [actionName EXCEPT ![r] =
                                     ResolveActionName(routes[i].path, url)]
                /\ pc' = [pc EXCEPT ![r] = "AliasResolve"]
                /\ events' = [events EXCEPT ![r] = Append(@, Event("callAction", i))]
                /\ UNCHANGED res
           ELSE IF serve
           THEN /\ pc' = [pc EXCEPT ![r] = "static"]
                /\ events' = [events EXCEPT ![r] = Append(@, Event("serve", 0))]
                /\ UNCHANGED << actionName, res >>
           ELSE /\ pc' = [pc EXCEPT ![r] = "done"]
                /\ res' = [res EXCEPT ![r] = send404(@)]
                /\ events' = [events EXCEPT ![r] = Append(@, Event("send404", 0))]
                /\ UNCHANGED actionName
        /\ UNCHANGED << service, params, endpoint, ctx, pending, parsing >>

\* The static middleware answers (lines 282-287): it sends the file, or it
\* calls back with an error and the handler sends the 404.
ServeStatic(r) ==
    /\ pc[r] = "static"
    /\ \E found \in BOOLEAN :
          IF found
          THEN /\ res' = [res EXCEPT ![r] =
                            ResEnd(ResWriteHead(@, 200, EmptyObject), [kind |-> "file"])]
               /\ events' = [events EXCEPT ![r] = Append(@, Event("file", 0))]
          ELSE /\ res' = [res EXCEPT ![r] = send404(@)]
               /\ events' = [events EXCEPT ![r] = Append(@, Event("send404", 0))]
    /\ pc' = [pc EXCEPT ![r] = "done"]
    /\ UNCHANGED << service, req, route, actionName, query, params, endpoint,
                    ctx, pending, parsing >>

\* ------------------------------------------------------------------------
\* callAction: the stages before the context exists
\* ------------------------------------------------------------------------

RouteOf(r) == routes[route[r]]

\* Promise.reject(e), or a throw inside a handler: the chain skips to its
\* catch handler with e.
Reject(r, e) ==
    /\ pc' = [pc EXCEPT ![r] = "catch"]
    /\ pending' = [pending EXCEPT ![r] = e]

\* Resolve aliases, lines 319-327.
AliasResolve(r) ==
    /\ pc[r] = "AliasResolve"
    /\ actionName' = [actionName EXCEPT ![r] =
          IF RouteOf(r).hasAliases
          THEN resolveAlias(RouteOf(r), @, Some(req[r].method))
          ELSE @]
    /\ pc' = [pc EXCEPT ![r] = "WhitelistCheck"]
    /\ events' = [events EXCEPT ![r] = Append(@, Event("AliasResolve", actionName'[r]))]
    /\ UNCHANGED << service, req, res, route, query, params, endpoint, ctx,
                    pending, parsing >>

\* Whitelist check, lines 330-337.
WhitelistCheck(r) ==
    LET allowed == ~RouteOf(r).hasWhitelist \/ checkWhitelist(RouteOf(r), actionName[r])
    IN  /\ pc[r] = "WhitelistCheck"
        /\ IF allowed
           THEN /\ pc' = [pc EXCEPT ![r] = "BodyParse"]
                /\ UNCHANGED pending
           ELSE Reject(r, ServiceNotFoundError(actionName[r]))
        /\ events' = [events EXCEPT ![r] = Append(@, Event("WhitelistCheck", allowed))]
        /\ UNCHANGED << service, req, res, route, actionName, query, params,
                        endpoint, ctx, parsing >>

\* Line 342 with DELETE among the methods.
BodyMethodsWithDelete == {"POST", "PUT", "PATCH", "DELETE"}

\* The methods whose body is parsed, line 342.
BodyMethods == {"POST", "PUT", "PATCH"}

\* The parsers Promise.mapSeries runs for a request, line 342-343.
ParsersToRun(rt, method) ==
    IF method \in BodyMethods /\ rt.parsers # None THEN rt.parsers[1] ELSE <<>>

\* Parse body, lines 340-355: mapSeries calls the first parser; without a
\* parser to run the stage returns at once.
BodyParse(r) ==
    LET parsers == ParsersToRun(RouteOf(r), req[r].method)
    IN  /\ pc[r] = "BodyParse"
        /\ IF Len(parsers) > 0
           THEN /\ pc' = [pc EXCEPT ![r] = "Parsing"]
                /\ parsing' = [parsing EXCEPT ![r] = 1]
                /\ events' = [events EXCEPT ![r] =
                      @ \o << Event("BodyParse", Len(parsers)), Event("parserStart", 1) >>]
           ELSE /\ pc' = [pc EXCEPT ![r] = "ParamMerge"]
                /\ events' = [events EXCEPT ![r] = Append(@, Event("BodyParse", 0))]
                /\ UNCHANGED parsing
        /\ UNCHANGED << service, req, res, route, actionName, query, params,
                        endpoint, ctx, pending >>

\* What a body parser does before it calls back: it reports an error, it
\* leaves the body alone (req.body = req.body || {}), or it stores the
\* parsed body and marks the request as parsed.  A request that is already
\* marked is left alone.
ParserOutcomes(rq) ==
    IF rq._body THEN {[kind |-> "skip", body |-> EmptyObject]}
    ELSE {[kind |-> "fail", body |-> EmptyObject], [kind |-> "skip", body |-> EmptyObject]}
         \cup {[kind |-> "parsed", body |-> b] : b \in ParsedBodies}

\* The index mapSeries continues with after parser i, 0 when i was the last.
NextParser(parsers, i) == IF i < Len(parsers) THEN i + 1 ELSE 0

\* The rejection of lines 346-348 built from the last parser's error
\* instead of the error of the parser that called back.
ParserFailureOfLast(parsers, i) ==
    InvalidRequestBodyError(ParserError(parsers[Len(parsers)]).body,
                            ParserError(parsers[Len(parsers)]).message)

\* Lines 346-348: the rejection when parser i calls back with an error.
ParserFailure(parsers, i) ==
    InvalidRequestBodyError(ParserError(parsers[i]).body, ParserError(parsers[i]).message)

\* The callback of the running parser, lines 345-351, and mapSeries' step
\* to the next parser.
ParserCallback(r) ==
    LET parsers == ParsersToRun(RouteOf(r), req[r].method)
        i       == parsing[r]
        next    == NextParser(parsers, i)
    IN  /\ pc[r] = "Parsing"
        /\ \E o \in ParserOutcomes(req[r]) :
              IF o.kind = "fail"
              THEN /\ Reject(r, ParserFailure(parsers, i))
                   /\ parsing' = [parsing EXCEPT ![r] = 0]
                   /\ events' = [events EXCEPT ![r] = Append(@, Event("parserFail", i))]
                   /\ UNCHANGED req
              ELSE /\ req' = [req EXCEPT ![r] =
                          IF o.kind = "parsed"
                          THEN [@ EXCEPT !.body = Some(o.body), !._body = TRUE]
                          ELSE [@ EXCEPT !.body = IF @ = None THEN Some(EmptyObject) ELSE @]]
                   /\ parsing' = [parsing EXCEPT ![r] = next]
                   /\ pc' = [pc EXCEPT ![r] = IF next = 0 THEN "ParamMerge" ELSE "Parsing"]
                   /\ events' = [events EXCEPT ![r] =
                          IF next = 0 THEN Append(@, Event("parserDone", i))
                          ELSE @ \o << Event("parserDone", i), Event("parserStart", next) >>]
                   /\ UNCHANGED pending
        /\ UNCHANGED << service, res, route, actionName, query, params, endpoint, ctx >>

\* _.isObject(req.body)
IsObject(body) == body # None

\* Lines 359-361 with the two sources swapped: the query on top of the body.
MergeParamsQueryWins(q, body) ==
    LET fromQuery == IF q = None THEN EmptyObject ELSE ObjectAssign(EmptyObject, q[1])
    IN  IF IsObject(body) THEN ObjectAssign(body[1], fromQuery) ELSE fromQuery

\* Lines 359-361: Object.assign({}, query), then the body's fields on top.
MergeParams(q, body) ==
    LET fromQuery == IF q = None THEN EmptyObject ELSE ObjectAssign(EmptyObject, q[1])
    IN  IF IsObject(body) THEN ObjectAssign(fromQuery, body[1]) ELSE fromQuery

\* The assignment of line 359 to a params that all requests share.
StoreParamsShared(r, p) == [s \in Requests |-> p]

\* The assignment of line 359: params is a local of the call of callAction
\* (line 313), so each request has its own.
StoreParams(r, p) == [params EXCEPT ![r] = p]

\* Merge params, lines 358-362.
ParamMerge(r) ==
    /\ pc[r] = "ParamMerge"
    /\ params' = StoreParams(r, MergeParams(query[r], req[r].body))
    /\ pc' = [pc EXCEPT ![r] = "ActionResolve"]
    /\ events' = [events EXCEPT ![r] = Append(@, Event("ParamMerge", params'[r]))]
    /\ UNCHANGED << service, req, res, route, actionName, query, endpoint, ctx,
                    pending, parsing >>

\* broker.getAction(name): the endpoint, None when the action is unknown.
GetAction(name) ==
    IF name \in DOMAIN BrokerActions
    THEN Some([ name |-> name, params |-> BrokerActions[name].params,
                responseType |-> BrokerActions[name].responseType ])
    ELSE None

\* A validator that accepts everything.
ValidateNothing(p, schema) == {}

\* broker.validator.validate(params, schema): the required keys that miss.
Validate(p, schema) == schema \ DOMAIN p

\* Resolve action by name, lines 365-377.
ActionResolve(r) ==
    LET ep      == GetAction(actionName[r])
        checked == ep # None /\ BrokerHasValidator /\ ep[1].params # None
        missing == IF checked THEN Validate(params[r], ep[1].params[1]) ELSE {}
    IN  /\ pc[r] = "ActionResolve"
        /\ endpoint' = [endpoint EXCEPT ![r] = ep]
        /\ IF ep = None
           THEN Reject(r, ServiceNotFoundError(actionName[r]))
           ELSE IF missing # {}
           THEN Reject(r, ValidationError(missing))
           ELSE /\ pc' = [pc EXCEPT ![r] = "ContextCreate"]
                /\ UNCHANGED pending
        /\ events' = [events EXCEPT ![r] =
              IF checked
              THEN @ \o << Event("getAction", actionName[r]), Event("validate", params[r]) >>
              ELSE Append(@, Event("getAction", actionName[r]))]
        /\ UNCHANGED << service, req, res, route, actionName, query, params, ctx, parsing >>

\* ------------------------------------------------------------------------
\* callAction: context, authorization, invocation
\* ------------------------------------------------------------------------

ContextId(r) == <<"ctx", ToString(r)>>

\* Create a new context for request, lines 380-396.
ContextCreate(r) ==
    /\ pc[r] = "ContextCreate"
    /\ ctx' = [ctx EXCEPT ![r] =
          [ id |-> Some(ContextId(r)), params |-> params[r], meta |-> EmptyObject,
            requestID |-> Some(ContextId(r)), metricStart |-> 1, metricFinish |-> 0 ]]
    /\ pc' = [pc EXCEPT ![r] = "Authorize"]
    /\ events' = [events EXCEPT ![r] = Append(@, Event("ContextCreate", ContextId(r)))]
    /\ UNCHANGED << service, req, res, route, actionName, query, params, endpoint,
                    pending, parsing >>

\* Line 402 with the operands swapped: the header before the query.
ApiKeyHeaderFirst(q, headers) ==
    LET fromQuery == IF q # None /\ <<"apikey">> \in DOMAIN q[1]
                     THEN Some(q[1][<<"apikey">>]) ELSE None
    IN  IF Truthy(headers.apikey) THEN headers.apikey ELSE fromQuery

\* Line 402: (query && query.apikey) || req.headers["apikey"]
ApiKey(q, headers) ==
    LET fromQuery == IF q # None /\ <<"apikey">> \in DOMAIN q[1]
                     THEN Some(q[1][<<"apikey">>]) ELSE None
    IN  IF Truthy(fromQuery) THEN fromQuery ELSE headers.apikey

\* Authorization, lines 399-417: the call of auth.resolveUser goes out, or
\* the stage passes the context on.
Authorize(r) ==
    /\ pc[r] = "Authorize"
    /\ IF RouteOf(r).authorization
       THEN /\ pc' = [pc EXCEPT ![r] = "AuthCall"]
            /\ events' = [events EXCEPT ![r] =
                  @ \o << Event("Authorize", TRUE),
                          Event("authCall", ApiKey(query[r], req[r].headers)) >>]
       ELSE /\ pc' = [pc EXCEPT ![r] = "Invoke"]
            /\ events' = [events EXCEPT ![r] = Append(@, Event("Authorize", FALSE))]
    /\ UNCHANGED << service, req, res, route, actionName, query, params, endpoint,
                    ctx, pending, parsing >>

\* auth.resolveUser answers, lines 404-414: with a user, with no user, or
\* with a failure of the call.
AuthReturn(r) ==
    /\ pc[r] = "AuthCall"
    /\ \/ \E user \in Users :
             /\ IF Truthy(user)
                THEN /\ ctx' = [ctx EXCEPT ![r].meta = ObjectAssign(@, <<"user">> :> user[1])]
                     /\ pc' = [pc EXCEPT ![r] = "Invoke"]
                     /\ UNCHANGED pending
                ELSE /\ Reject(r, CustomError(<<"Forbidden">>, 403))
                     /\ UNCHANGED ctx
             /\ events' = [events EXCEPT ![r] = Append(@, Event("authReturn", user))]
       \/ \E e \in CallErrors(ContextId(r)) :
             /\ Reject(r, e)
             /\ events' = [events EXCEPT ![r] = Append(@, Event("authFailed", e.name))]
             /\ UNCHANGED ctx
    /\ UNCHANGED << service, req, res, route, actionName, query, params, endpoint, parsing >>

\* Call the action, line 421: ctx.call(endpoint, params) goes out.
Invoke(r) ==
    /\ pc[r] = "Invoke"
    /\ pc' = [pc EXCEPT ![r] = "Invoking"]
    /\ events' = [events EXCEPT ![r] = Append(@,
          Event("Invoke", [ endpoint |-> endpoint[r][1].name, params |-> params[r],
                            meta |-> ctx[r].meta ]))]
    /\ UNCHANGED << service, req, res, route, actionName, query, params, endpoint,
                    ctx, pending, parsing >>

\* The action answers: with a value or with a failure.
InvokeReturn(r) ==
    /\ pc[r] = "Invoking"
    /\ \/ \E d \in DataValues :
             /\ pending' = [pending EXCEPT ![r] = d]
             /\ pc' = [pc EXCEPT ![r] = "Encode"]
             /\ events' = [events EXCEPT ![r] = Append(@, Event("invokeReturn", d))]
       \/ \E e \in CallErrors(ContextId(r)) :
             /\ Reject(r, e)
             /\ events' = [events EXCEPT ![r] = Append(@, Event("invokeFailed", e.name))]
    /\ UNCHANGED << service, req, res, route, actionName, query, params, endpoint,
                    ctx, parsing >>

\* ------------------------------------------------------------------------
\* callAction: response encoding and the catch handler
\* ------------------------------------------------------------------------

\* Lines 434-466 with the _.isObject test ahead of the envelope and stream
\* tests.
EncodeBranchObjectFirst(d) ==
    IF d.isNull THEN "null"
    ELSE IF d.isBuffer THEN "buffer"
    ELSE IF d.isObject THEN "structured"
    ELSE IF d.isObject /\ d.typeIsBuffer THEN "envelope"
    ELSE IF d.isStream THEN "stream"
    ELSE IF d.isString THEN "text"
    ELSE "other"

\* The branch of lines 434-466 a value takes.
EncodeBranch(d) ==
    IF d.isNull THEN "null"
    ELSE IF d.isBuffer THEN "buffer"
    ELSE IF d.isObject /\ d.typeIsBuffer THEN "envelope"
    ELSE IF d.isStream THEN "stream"
    ELSE IF d.isObject THEN "structured"
    ELSE IF d.isString THEN "text"
    ELSE "other"

\* responseType || "application/octet-stream", responseType || "application/json"
ContentType(branch, responseType) ==
    IF Truthy(responseType) THEN responseType[1]
    ELSE IF branch \in {"buffer", "envelope", "stream"}
         THEN <<"application/octet-stream">>
         ELSE <<"application/json">>

\* Whether the branch calls Buffer.from or JSON.stringify on the value.
Converts(branch, responseType) ==
    \/ branch \in {"envelope", "structured", "other"}
    \/ branch = "text" /\ ~Truthy(responseType)

\* Lines 423-430: status 200 and the Request-Id header.
EncodeStart(rs, c) ==
    LET ok == [rs EXCEPT !.statusCode = 200]
    IN  IF Truthy(c.requestID) THEN ResSetHeader(ok, "request-id", c.requestID[1]) ELSE ok

\* Lines 434-466 when nothing throws: the headers and the body of the branch.
EncodeValue(rs, d, responseType) ==
    LET branch == EncodeBranch(d)
        typed  == ResSetHeader(rs, "content-type", ContentType(branch, responseType))
    IN  CASE branch = "null"       -> ResEnd(rs, [kind |-> "empty", of |-> d.kind])
          [] branch = "buffer"     ->
                ResEnd(ResSetHeader(typed, "content-length", <<"data.length">>),
                       [kind |-> "bytes", of |-> d.kind])
          [] branch = "envelope"   -> ResEnd(typed, [kind |-> "bytes", of |-> d.kind])
          [] branch = "stream"     -> [typed EXCEPT !.piped = "flowing"]
          [] branch = "structured" -> ResEnd(typed, [kind |-> "json", of |-> d.kind])
          [] branch = "text"       ->
                IF Truthy(responseType)
                THEN ResEnd(typed, [kind |-> "text", of |-> d.kind])
                ELSE ResEnd(typed, [kind |-> "json", of |-> d.kind])
          [] OTHER                 -> ResEnd(typed, [kind |-> "json", of |-> d.kind])

\* Lines 434-466 with the conversion throwing only after the body went out.
EncodeThrownAfterWrite(rs, d, responseType) == EncodeValue(rs, d, responseType)

\* Lines 434-466 when the conversion throws: Buffer.from runs before the
\* Content-Type is set, JSON.stringify after it.
EncodeThrown(rs, d, responseType) ==
    LET branch == EncodeBranch(d)
    IN  IF branch = "envelope" THEN rs
        ELSE ResSetHeader(rs, "content-type", ContentType(branch, responseType))

\* The handler of the action's value, lines 422-472.  ctx._metricFinish
\* records the end time and then emits the metrics event, which can throw.
Encode(r) ==
    LET d        == pending[r]
        rt       == endpoint[r][1].responseType
        branch   == EncodeBranch(d)
        started  == EncodeStart(res[r], ctx[r])
    IN  /\ pc[r] = "Encode"
        /\ IF Converts(branch, rt) /\ ~d.encodable
           THEN /\ res' = [res EXCEPT ![r] = EncodeThrown(started, d, rt)]
                /\ Reject(r, InvalidResponseType(TypeOf(d)))
                /\ events' = [events EXCEPT ![r] = Append(@, Event("encodeFailed", branch))]
                /\ UNCHANGED ctx
           ELSE /\ res' = [res EXCEPT ![r] = EncodeValue(started, d, rt)]
                /\ ctx' = [ctx EXCEPT ![r].metricFinish = @ + 1]
                /\ events' = [events EXCEPT ![r] =
                      @ \o << Event("Encode", branch), Event("metricFinish", 0) >>]
                /\ \E emitted \in BOOLEAN :
                      IF emitted
                      THEN /\ pc' = [pc EXCEPT ![r] = "done"]
                           /\ UNCHANGED pending
                      ELSE Reject(r, MetricError)
        /\ UNCHANGED << service, req, route, actionName, query, params, endpoint, parsing >>

\* Line 487: the status of an error.
ErrorStatus(e) == IF e.code # None THEN e.code[1] ELSE 500

\* Lines 479-484: the headers of an error response.
ErrorHeaders(e) ==
    IF e.ctx # None
    THEN ("content-type" :> <<"application/json">>) @@ ("request-id" :> e.ctx[1])
    ELSE ("content-type" :> <<"application/json">>)

\* Line 489: _.pick(err, ["name", "message", "code", "data"])
ErrorObject(e) ==
    [name |-> e.name, message |-> e.message, code |-> e.code, data |-> e.data]

\* Whether the catch handler calls err.ctx._metricFinish, line 492.
FinishesMetrics(e) == e.ctx # None

\* Error handling, lines 476-494.  A throw inside the handler (writeHead,
\* JSON.stringify, _metricFinish) rejects the promise callAction returned,
\* which nothing handles.
ErrorHandler(r) ==
    LET e    == pending[r]
        code == ErrorStatus(e)
        head == ResWriteHead(res[r], code, ErrorHeaders(e))
    IN  /\ pc[r] = "catch"
        /\ IF ResWriteHeadThrows(res[r], code)
           THEN /\ pc' = [pc EXCEPT ![r] = "unhandled"]
                /\ events' = [events EXCEPT ![r] = Append(@, Event("ErrorMapper", "writeHead threw"))]
                /\ UNCHANGED << res, ctx >>
           ELSE IF ~e.serializable
           THEN /\ pc' = [pc EXCEPT ![r] = "unhandled"]
                /\ res' = [res EXCEPT ![r] = head]
                /\ events' = [events EXCEPT ![r] = Append(@, Event("ErrorMapper", "stringify threw"))]
                /\ UNCHANGED ctx
           ELSE /\ res' = [res EXCEPT ![r] = ResEnd(head, [kind |-> "error", of |-> ErrorObject(e)])]
                /\ IF FinishesMetrics(e)
                   THEN /\ ctx' = [ctx EXCEPT ![r].metricFinish = @ + 1]
                        /\ events' = [events EXCEPT ![r] =
                              @ \o << Event("ErrorMapper", "sent"), Event("metricFinish", 0) >>]
                        /\ \E emitted \in BOOLEAN :
                              pc' = [pc EXCEPT ![r] = IF emitted THEN "done" ELSE "unhandled"]
                   ELSE /\ pc' = [pc EXCEPT ![r] = "done"]
                        /\ events' = [events EXCEPT ![r] = Append(@, Event("ErrorMapper", "sent"))]
                        /\ UNCHANGED ctx
        /\ UNCHANGED << service, req, route, actionName, query, params, endpoint,
                        pending, parsing >>

\* The stream piped into the response (line 449) ends; it may do so before
\* or after a catch handler that is still to run.
StreamEnd(r) ==
    /\ res[r].piped = "flowing"
    /\ res' = [res EXCEPT ![r] = [ResEnd(@, [kind |-> "stream", of |-> "stream"])
                                    EXCEPT !.piped = "ended"]]
    /\ UNCHANGED << service, pc, req, route, actionName, query, params, endpoint,
                    ctx, pending, parsing, events >>

\* ------------------------------------------------------------------------
\* Direct calls of the service methods resolveAlias and checkWhitelist
\* ------------------------------------------------------------------------

\* The longest action name and the longest whitelist of a direct call.
MaxNameLen == 3

MaxMasks == 2

SeqsUpTo(S, n) == UNION {[1..k -> S] : k \in 0..n}

\* Route options with nothing but a path.
PlainOptions ==
    [ path |-> <<"/">>, whitelist |-> None, authorization |-> FALSE,
      aliases |-> None, bodyParsers |-> None ]

\* The alias tables of the direct calls: method key and bare key together,
\* each of them alone, a key the name is a prefix of, and no key at all.
AliasTables ==
    { (<<"POST", " ", "foo">> :> <<"a">>) @@ (<<"foo">> :> <<"b">>),
      (<<"foo">> :> <<"b">>),
      (<<"GET", " ", "foo">> :> <<"a">>),
      (<<"foo", ".", "bar">> :> <<"c">>) @@ (<<"POST", " ", "foo", ".", "bar">> :> <<"d">>),
      EmptyObject }

AliasNames == SeqsUpTo({"foo", ".", "bar", "toString"}, MaxNameLen)

\* The method argument of resolveAlias: left out, or given.
OptionalMethods == {None, Some("GET"), Some("POST")}

\* The masks of the direct calls' whitelists.
Masks ==
    { StringMask(<<"posts", ".", "*">>), StringMask(<<"posts", ".", "list">>),
      RegExpMask(<<"math", ".">>), OtherMask }

Whitelists == SeqsUpTo(Masks, MaxMasks)

WhitelistNames == SeqsUpTo({"posts", ".", "list", "math"}, MaxNameLen)

\* Some caller runs this.resolveAlias(route, actionName[, method]).
CallResolveAlias(r) ==
    /\ pc[r] = "idle"
    /\ \E aliases \in AliasTables, name \in AliasNames, method \in OptionalMethods :
          LET rt == createRoute(ExampleSettings, [PlainOptions EXCEPT !.aliases = Some(aliases)])
          IN  pending' = [pending EXCEPT ![r] =
                 [ fn |-> "resolveAlias", route |-> rt, actionName |-> name,
                   method |-> method, result |-> resolveAlias(rt, name, method) ]]
    /\ pc' = [pc EXCEPT ![r] = "returned"]
    /\ UNCHANGED << service, req, res, route, actionName, query, params, endpoint,
                    ctx, parsing, events >>

\* Some caller runs this.checkWhitelist(route, action).
CallCheckWhitelist(r) ==
    /\ pc[r] = "idle"
    /\ \E whitelist \in Whitelists, name \in WhitelistNames :
          LET rt == createRoute(ExampleSettings, [PlainOptions EXCEPT !.whitelist = Some(whitelist)])
          IN  pending' = [pending EXCEPT ![r] =
                 [ fn |-> "checkWhitelist", route |-> rt, action |-> name,
                   result |-> checkWhitelist(rt, name) ]]
    /\ pc' = [pc EXCEPT ![r] = "returned"]
    /\ UNCHANGED << service, req, res, route, actionName, query, params, endpoint,
                    ctx, parsing, events >>

\* The global path and the route path of the direct calls of createRoute:
\* left out, with and without a slash at the end.
GlobalPaths == { <<>>, <<"/", "api">>, <<"/", "api", "/">> }

RoutePaths == { <<>>, <<"/">>, <<"/", "admin">>, <<"/", "admin", "/">> }

\* created() runs this.createRoute(opts) for a route of the settings.
CallCreateRoute(r) ==
    /\ pc[r] = "idle"
    /\ \E global \in GlobalPaths, path \in RoutePaths :
          LET settings == [ExampleSettings EXCEPT !.path = global]
              opts     == [PlainOptions EXCEPT !.path = path]
          IN  pending' = [pending EXCEPT ![r] =
                 [ fn |-> "createRoute", settings |-> settings, opts |-> opts,
                   result |-> createRoute(settings, opts) ]]
    /\ pc' = [pc EXCEPT ![r] = "returned"]
    /\ UNCHANGED << service, req, res, route, actionName, query, params, endpoint,
                    ctx, parsing, events >>

\* A direct call of a service method.
Call(r) == CallResolveAlias(r) \/ CallCheckWhitelist(r) \/ CallCreateRoute(r)

\* ------------------------------------------------------------------------
\* The specification
\* ------------------------------------------------------------------------

\* The settings the gateway is created with: with and without assets.
GatewaySettings == {ExampleSettings, [ExampleSettings EXCEPT !.assets = TRUE]}

Init == \E settings \in GatewaySettings : InitWith(settings)

\* A request arrives.
Arrive(r) ==
    \E method \in RequestMethods, url \in RequestUrls, apikey \in ApiKeyHeaders :
        httpHandler(r, method, url, apikey)

\* One step of request r after its arrival.
Step(r) ==
    \/ ServeStatic(r)
    \/ AliasResolve(r)
    \/ WhitelistCheck(r)
    \/ BodyParse(r)
    \/ ParserCallback(r)
    \/ ParamMerge(r)
    \/ ActionResolve(r)
    \/ ContextCreate(r)
    \/ Authorize(r)
    \/ AuthReturn(r)
    \/ Invoke(r)
    \/ InvokeReturn(r)
    \/ Encode(r)
    \/ ErrorHandler(r)
    \/ StreamEnd(r)

Next == Arrive(1) \/ Step(1) \/ Call(1)

Spec == Init /\ [][Next]_vars

\* The requests that are in flight together: the server calls httpHandler
\* for each of them, and the handlers of their promise chains interleave.
ConcurrentInputs ==
    { [ method |-> "GET",  url |-> <<"/">> ],
      [ method |-> "POST", url |-> <<"/", "admin", "/", "users">> ],
      [ method |-> "GET",
        url    |-> <<"/", "admin", "/", "users", "/", "get", "?", "apikey", "=", "k1">> ] }

\* What request r can ask for: the first two requests take any of the
\* inputs, a further one asks for the path no route claims.
InputsOf(r) ==
    IF r \in {1, 2} THEN ConcurrentInputs
    ELSE {input \in ConcurrentInputs : input.url = <<"/">>}

ArriveConcurrently(r) ==
    \E input \in InputsOf(r) : httpHandler(r, input.method, input.url, None)

InitConcurrent == InitWith([ExampleSettings EXCEPT !.assets = TRUE])

NextConcurrent == \E r \in Requests : ArriveConcurrently(r) \/ Step(r)

Concurrent == InitConcurrent /\ [][NextConcurrent]_vars

\* ------------------------------------------------------------------------
\* Properties
\* ------------------------------------------------------------------------

\* The request went through httpHandler.
Arrived(r) == req[r].method # ""

\* The request was handed to callAction.
Dispatched(r) == route[r] # 0

\* The chain of the request has ended and no stream is still flowing.
Settled(r) == pc[r] \in {"done", "unhandled"} /\ res[r].piped # "flowing"

\* Whether the request's history holds an event of the kind ev.
Has(r, ev) == \E i \in DOMAIN events[r] : events[r][i].ev = ev

\* The complete responses the client of the request has received.
ResponsesWritten(r) == IF res[r].finished THEN 1 ELSE 0

\* C1: once the chain of a dispatched request has ended (and the stream it
\* piped, if any), exactly one response has been written, whichever stage
\* failed, the catch handler included.
C1_ExactlyOneResponse ==
    \A r \in Requests : Dispatched(r) /\ Settled(r) => ResponsesWritten(r) = 1

\* A mask matches a name by its own rule: a string as a glob, a regular
\* expression by its test, anything else never.
MatchesByRule(mask, name) ==
    \/ mask.type = "string" /\ GlobMatch(name, mask.pattern)
    \/ mask.type = "regexp" /\ RegExpTest(mask, name)

\* At least one mask of the whitelist matches the name.
SomeMaskMatches(whitelist, name) ==
    \E i \in 1..Len(whitelist) : MatchesByRule(whitelist[i], name)

\* What happens to a request after its whitelist check.
AfterWhitelist ==
    {"parserStart", "getAction", "validate", "ContextCreate", "authCall", "Invoke"}

\* The response is the JSON error response of a ServiceNotFoundError that
\* names the action, with status 404.
IsNotFoundResponse(rs, name) ==
    /\ rs.finished
    /\ rs.statusCode = 404
    /\ rs.headers["content-type"] = <<"application/json">>
    /\ rs.body.kind = "error"
    /\ rs.body.of.name = "ServiceNotFoundError"
    /\ rs.body.of.data = Some([action |-> name])

\* C2: on a route with a whitelist only names that some mask matches are
\* looked up or invoked; a request whose final name no mask matches runs no
\* body parser, lookup, context creation, authorization call or invocation
\* and ends with the 404 JSON error that names the action.
C2_WhitelistGuardsPipeline ==
    \A r \in Requests :
        Dispatched(r) /\ RouteOf(r).opts.whitelist # None =>
            LET whitelist == RouteOf(r).opts.whitelist[1]
                ev        == events[r]
            IN  /\ \A i \in DOMAIN ev :
                      /\ ev[i].ev = "getAction" => SomeMaskMatches(whitelist, ev[i].arg)
                      /\ ev[i].ev = "Invoke" => SomeMaskMatches(whitelist, ev[i].arg.endpoint)
                /\ Has(r, "AliasResolve") /\ ~SomeMaskMatches(whitelist, actionName[r]) =>
                      /\ \A i \in DOMAIN ev : ev[i].ev \notin AfterWhitelist
                      /\ pc[r] \in {"WhitelistCheck", "catch", "done"}
                      /\ pc[r] = "done" => IsNotFoundResponse(res[r], actionName[r])

\* C2's case: a request for a name outside the whitelist was answered.
C2_Witness ==
    \E r \in Requests :
        /\ Dispatched(r) /\ RouteOf(r).opts.whitelist # None
        /\ ~SomeMaskMatches(RouteOf(r).opts.whitelist[1], actionName[r])
        /\ actionName[r] = <<"comments", ".", "list">>
        /\ pc[r] = "done" /\ res[r].statusCode = 404

\* The api key of a request: the query parameter apikey, else the header.
ExpectedApiKey(r) ==
    IF /\ query[r] # None
       /\ <<"apikey">> \in DOMAIN query[r][1]
       /\ query[r][1][<<"apikey">>] # <<>>
    THEN Some(query[r][1][<<"apikey">>])
    ELSE req[r].headers.apikey

\* The response is the JSON error response of the Forbidden error.
IsForbiddenResponse(rs) ==
    /\ rs.finished
    /\ rs.statusCode = 403
    /\ rs.body.kind = "error"
    /\ rs.body.of.message = <<"Forbidden">>

\* C3: a route that asks for authorization invokes the action only after
\* auth.resolveUser, called with the request's api key, returned a user,
\* and with that user in the context's meta; without a user the answer is
\* the 403 Forbidden error and nothing is invoked; a route that does not ask
\* for authorization never calls auth.resolveUser.
C3_AuthorizationGuardsInvoke ==
    \A r \in Requests :
        Dispatched(r) =>
            LET ev == events[r]
            IN  /\ ~RouteOf(r).opts.authorization =>
                      \A i \in DOMAIN ev : ev[i].ev \notin {"authCall", "authReturn", "authFailed"}
                /\ RouteOf(r).opts.authorization =>
                      \A i \in DOMAIN ev :
                          /\ ev[i].ev = "authCall" => ev[i].arg = ExpectedApiKey(r)
                          /\ ev[i].ev = "Invoke" =>
                                \E j \in 1..(i - 1) :
                                    /\ ev[j].ev = "authReturn"
                                    /\ ev[j].arg # None
                                    /\ ev[i].arg.meta = (<<"user">> :> ev[j].arg[1])
                          /\ ev[i].ev = "authReturn" /\ ev[i].arg = None =>
                                /\ ~Has(r, "Invoke")
                                /\ pc[r] \in {"catch", "done"}
                                /\ pc[r] = "done" => IsForbiddenResponse(res[r])

\* C3's case: an authorized invocation whose api key came from the query
\* although the request also has the header.
C3_Witness ==
    \E r \in Requests :
        /\ Dispatched(r) /\ RouteOf(r).opts.authorization
        /\ Has(r, "Invoke")
        /\ ctx[r].meta = (<<"user">> :> <<"alice">>)
        /\ query[r] # None /\ <<"apikey">> \in DOMAIN query[r][1]
        /\ req[r].headers.apikey # None

\* C4: a request whose context was created (metrics started) and whose
\* chain ended has its metrics finished, on the success path and on every
\* error path after the context creation.
C4_MetricsFinalized ==
    \A r \in Requests :
        pc[r] = "done" /\ ctx[r].metricStart > 0 => ctx[r].metricFinish > 0

\* The request path: the URL without its query string.
RequestPath(r) == UrlPath(req[r].url)

\* C5: when the request path starts with the path of some route, the
\* request is dispatched to the first such route in declaration order.
C5_FirstMatchingRoute ==
    \A r \in Requests :
        Arrived(r) =>
            LET matching == {i \in 1..Len(routes) : StartsWith(RequestPath(r), routes[i].path)}
            IN  matching # {} =>
                    /\ route[r] \in matching
                    /\ \A j \in matching : route[r] <= j

\* C6: resolveAlias returns the mapping of the key "<method> <name>" when
\* the route's aliases have that key, else the mapping of the key "<name>"
\* when they have it, else the name; the method defaults to GET.
C6_ExactKeyOnly ==
    \A r \in Requests :
        pc[r] = "returned" /\ pending[r].fn = "resolveAlias" =>
            LET aliases == pending[r].route.aliases[1]
                name    == pending[r].actionName
                method  == IF pending[r].method = None THEN "GET" ELSE pending[r].method[1]
                key     == <<method, " ">> \o name
            IN  pending[r].result =
                    IF key \in DOMAIN aliases THEN aliases[key]
                    ELSE IF name \in DOMAIN aliases THEN aliases[name]
                    ELSE name

\* The rearrangements of a sequence.
Rearrangements(s) ==
    {[i \in 1..Len(s) |-> s[f[i]]] : f \in Permutations(1..Len(s))}

\* C7: checkWhitelist is true exactly when some mask matches by its own
\* rule, whatever the order of the masks, and a route without a whitelist
\* lets every name pass.
C7_WhitelistIsDisjunction ==
    \A r \in Requests :
        /\ pc[r] = "returned" /\ pending[r].fn = "checkWhitelist" =>
              LET whitelist == pending[r].route.whitelist[1]
                  name      == pending[r].action
              IN  /\ pending[r].result = SomeMaskMatches(whitelist, name)
                  /\ \A other \in Rearrangements(whitelist) :
                        checkWhitelist([pending[r].route EXCEPT !.whitelist = Some(other)], name)
                            = pending[r].result
        /\ Dispatched(r) /\ RouteOf(r).opts.whitelist = None =>
              \A i \in DOMAIN events[r] :
                  events[r][i].ev = "WhitelistCheck" => events[r][i].arg

\* C7's case: a whitelist whose first mask is neither string nor regular
\* expression and whose second mask matches.
C7_Witness ==
    \E r \in Requests :
        /\ pc[r] = "returned" /\ pending[r].fn = "checkWhitelist"
        /\ pending[r].route.whitelist[1] = << OtherMask, RegExpMask(<<"math", ".">>) >>
        /\ pending[r].action = <<"math", ".", "list">>
        /\ pending[r].result

\* The enabled decoders of a route's options, in configured order.
IsEnabled(entry) == entry.value # "false"

EnabledDecoders(opts) ==
    IF opts.bodyParsers = None THEN <<>> ELSE SelectSeq(opts.bodyParsers[1], IsEnabled)

ParserEvents == {"parserStart", "parserDone", "parserFail"}

\* The InvalidRequestBody error of the failure of the i-th enabled decoder.
DecoderFailure(opts, i) ==
    LET failure == ParserError([type |-> EnabledDecoders(opts)[i].key])
    IN  InvalidRequestBodyError(failure.body, failure.message)

\* C8: decoder i+1 starts right after decoder i completed and never
\* otherwise; after a failure of decoder i no decoder runs and the error
\* that reaches the catch handler and the response is the InvalidRequestBody
\* error of decoder i.
C8_DecodersRunInSequence ==
    \A r \in Requests :
        Dispatched(r) =>
            LET ev == events[r]
            IN  \A k \in DOMAIN ev :
                    /\ ev[k].ev = "parserStart" =>
                          /\ k > 1
                          /\ IF ev[k].arg = 1
                             THEN ev[k - 1].ev = "BodyParse"
                             ELSE ev[k - 1].ev = "parserDone" /\ ev[k - 1].arg = ev[k].arg - 1
                          /\ ev[k].arg \in 1..Len(EnabledDecoders(RouteOf(r).opts))
                    /\ ev[k].ev = "parserFail" =>
                          /\ \A j \in DOMAIN ev : j > k => ev[j].ev \notin ParserEvents
                          /\ pc[r] \in {"catch", "done"}
                          /\ pc[r] = "catch" =>
                                pending[r] = DecoderFailure(RouteOf(r).opts, ev[k].arg)
                          /\ pc[r] = "done" =>
                                /\ res[r].body.kind = "error"
                                /\ res[r].body.of.name = "InvalidRequestBodyError"
                                /\ res[r].body.of.data =
                                      DecoderFailure(RouteOf(r).opts, ev[k].arg).data

\* C8's case: the first of two decoders failed and the error was answered.
C8_Witness ==
    \E r \in Requests :
        /\ Dispatched(r) /\ pc[r] = "done"
        /\ Len(EnabledDecoders(RouteOf(r).opts)) = 2
        /\ \E k \in DOMAIN events[r] :
              events[r][k].ev = "parserFail" /\ events[r][k].arg = 1

\* The query parameters and the body fields of a request.
QueryParameters(r) == IF query[r] = None THEN EmptyObject ELSE query[r][1]

BodyFields(r) == IF req[r].body = None THEN EmptyObject ELSE req[r].body[1]

\* C9: decoders run only for POST, PUT and PATCH on a route with an enabled
\* decoder; otherwise none runs, the stage goes on to the parameter merge
\* and the params are the query parameters.
C9_DecodersOnlyForBodyMethods ==
    \A r \in Requests :
        Dispatched(r) =>
            LET ev     == events[r]
                parses == /\ req[r].method \in {"POST", "PUT", "PATCH"}
                          /\ Len(EnabledDecoders(RouteOf(r).opts)) > 0
            IN  ~parses =>
                    /\ \A i \in DOMAIN ev : ev[i].ev \notin ParserEvents
                    /\ ev # <<>> /\ ev[Len(ev)].ev = "BodyParse" => pc[r] = "ParamMerge"
                    /\ Has(r, "ParamMerge") => params[r] = QueryParameters(r)

\* C9's case: a DELETE with a query on a route with two decoders reached
\* the invocation.
C9_Witness ==
    \E r \in Requests :
        /\ Dispatched(r) /\ req[r].method = "DELETE"
        /\ Len(EnabledDecoders(RouteOf(r).opts)) = 2
        /\ Has(r, "Invoke")
        /\ params[r] # EmptyObject

\* C10: after the merge the params hold the keys of query and body, with
\* the body's value for a key of both, and these params are what the
\* validator and the action get; the merge is followed by the lookup.
C10_BodyOverlaysQuery ==
    \A r \in Requests :
        Dispatched(r) /\ Has(r, "ParamMerge") =>
            LET q  == QueryParameters(r)
                b  == BodyFields(r)
                p  == params[r]
                ev == events[r]
            IN  /\ DOMAIN p = DOMAIN q \cup DOMAIN b
                /\ \A k \in DOMAIN b : p[k] = b[k]
                /\ \A k \in DOMAIN q \ DOMAIN b : p[k] = q[k]
                /\ \A i \in DOMAIN ev :
                      /\ ev[i].ev = "validate" => ev[i].arg = p
                      /\ ev[i].ev = "Invoke" => ev[i].arg.params = p
                      /\ ev[i].ev = "ParamMerge" /\ i = Len(ev) => pc[r] = "ActionResolve"

\* C10's case: query and body disagree on a key and the action was invoked.
C10_Witness ==
    \E r \in Requests :
        /\ Dispatched(r) /\ Has(r, "Invoke")
        /\ \E k \in DOMAIN QueryParameters(r) \cap DOMAIN BodyFields(r) :
              QueryParameters(r)[k] # BodyFields(r)[k]

\* The error the request ended with: the one the chain carries to the catch
\* handler, or the one in the body of the response.
ErrorNameIs(r, name) ==
    /\ pc[r] \in {"catch", "done"}
    /\ pc[r] = "catch" => pending[r].name = name
    /\ pc[r] = "done" => res[r].body.kind = "error" /\ res[r].body.of.name = name

\* C11: a name the broker has no action for ends in a ServiceNotFoundError
\* with no context created and nothing invoked; an action with a parameter
\* schema gets the merged params validated, and params the validator
\* rejects end in its ValidationError and are never passed to the action.
C11_LookupAndValidation ==
    \A r \in Requests :
        Dispatched(r) /\ Has(r, "getAction") =>
            LET known  == actionName[r] \in DOMAIN BrokerActions
                schema == BrokerActions[actionName[r]].params
            IN  /\ ~known =>
                      /\ ErrorNameIs(r, "ServiceNotFoundError")
                      /\ ctx[r] = NoContext
                      /\ ~Has(r, "ContextCreate") /\ ~Has(r, "authCall") /\ ~Has(r, "Invoke")
                /\ known /\ schema # None =>
                      /\ \E i \in DOMAIN events[r] :
                            events[r][i] = Event("validate", params[r])
                      /\ (\E k \in schema[1] : k \notin DOMAIN params[r]) =>
                            /\ ErrorNameIs(r, "ValidationError")
                            /\ ~Has(r, "ContextCreate") /\ ~Has(r, "Invoke")

\* C11's case: the validator rejected the params of a known action and the
\* error was answered.
C11_Witness ==
    \E r \in Requests :
        /\ Dispatched(r) /\ Has(r, "validate") /\ pc[r] = "done"
        /\ actionName[r] \in DOMAIN BrokerActions
        /\ res[r].body.kind = "error" /\ res[r].body.of.name = "ValidationError"

\* The branches of the encoder in their priority order, and the values each
\* of them is eligible for.
BranchOrder ==
    << "null", "buffer", "envelope", "stream", "structured", "text", "other" >>

Eligible(d, branch) ==
    CASE branch = "null"       -> d.isNull
      [] branch = "buffer"     -> d.isBuffer
      [] branch = "envelope"   -> d.isObject /\ d.typeIsBuffer
      [] branch = "stream"     -> d.isStream
      [] branch = "structured" -> d.isObject
      [] branch = "text"       -> d.isString
      [] OTHER                 -> TRUE

\* The first branch in priority order the value is eligible for.
ByPriority(d, branch) ==
    \E i \in DOMAIN BranchOrder :
        /\ BranchOrder[i] = branch
        /\ Eligible(d, branch)
        /\ \A j \in 1..(i - 1) : ~Eligible(d, BranchOrder[j])

\* The Content-Type of a branch for a declared response type.
DeclaredOrDefault(branch, declared) ==
    IF declared # None THEN declared[1]
    ELSE IF branch \in {"buffer", "envelope", "stream"}
         THEN <<"application/octet-stream">>
         ELSE <<"application/json">>

\* C12: every value an action returns is encoded by exactly one branch, the
\* first in priority order it is eligible for; right after the encoding the
\* status is 200 and the Content-Type is the declared type or the default
\* of the branch.
C12_EncodingIsTotal ==
    \A r \in Requests :
        Dispatched(r) =>
            LET ev      == events[r]
                encoded == {i \in DOMAIN ev : ev[i].ev \in {"Encode", "encodeFailed"}}
            IN  /\ Has(r, "invokeReturn") /\ pc[r] # "Encode" => Cardinality(encoded) = 1
                /\ \A i \in encoded :
                      /\ i > 1 /\ ev[i - 1].ev = "invokeReturn"
                      /\ ByPriority(ev[i - 1].arg, ev[i].arg)
                      /\ \A b \in {BranchOrder[j] : j \in DOMAIN BranchOrder} :
                            ByPriority(ev[i - 1].arg, b) => b = ev[i].arg
                      /\ ev[i].ev = "Encode" /\ i = Len(ev) - 1 =>
                            /\ res[r].statusCode = 200
                            /\ IF ev[i].arg = "null"
                               THEN "content-type" \notin DOMAIN res[r].headers
                               ELSE /\ "content-type" \in DOMAIN res[r].headers
                                    /\ res[r].headers["content-type"] =
                                          DeclaredOrDefault(ev[i].arg, endpoint[r][1].responseType)

\* C12's case: a stream, which is an object too, was piped with the default
\* type of the stream branch.
C12_Witness ==
    \E r \in Requests :
        /\ Dispatched(r) /\ Has(r, "Encode")
        /\ events[r][Len(events[r]) - 1] = Event("Encode", "stream")
        /\ events[r][Len(events[r]) - 2].arg.isObject
        /\ res[r].headers["content-type"] = <<"application/octet-stream">>

\* C13: when the encoding of the action's value fails, nothing of a success
\* response was sent, the chain carries an InvalidResponseType error to the
\* catch handler, and the request ends with one complete JSON error response.
C13_EncodeFailureIsMapped ==
    \A r \in Requests :
        Dispatched(r) /\ Has(r, "encodeFailed") =>
            /\ ~Has(r, "Encode")
            /\ pc[r] \in {"catch", "done"}
            /\ pc[r] = "catch" =>
                  /\ pending[r].name = "InvalidResponseType"
                  /\ ~res[r].headersSent /\ ~res[r].finished
                  /\ res[r].body.kind = "none" /\ res[r].piped = "no"
            /\ pc[r] = "done" =>
                  /\ res[r].finished
                  /\ res[r].body.kind = "error"
                  /\ res[r].body.of.name = "InvalidResponseType"
                  /\ res[r].headers["content-type"] = <<"application/json">>
                  /\ res[r].statusCode \notin 200..299
                  /\ Cardinality({i \in DOMAIN events[r] :
                                     events[r][i].ev = "ErrorMapper"}) = 1

\* C13's case: JSON.stringify rejected an object the action returned and
\* the error response went out.
C13_Witness ==
    \E r \in Requests :
        /\ Dispatched(r) /\ pc[r] = "done"
        /\ \E i \in DOMAIN events[r] : events[r][i] = Event("encodeFailed", "structured")
        /\ res[r].body.kind = "error"

\* C14: an error response has the Content-Type application/json, a body of
\* the error's name, message, code and data only, the error's code as status
\* when it is a number and 500 otherwise, and a Request-Id header exactly
\* when the error carries a context.
C14_ErrorResponseShape ==
    \A r \in Requests :
        Dispatched(r) /\ pc[r] = "done" /\ res[r].body.kind = "error" =>
            LET e == pending[r]
            IN  /\ res[r].headers["content-type"] = <<"application/json">>
                /\ DOMAIN res[r].body.of = {"name", "message", "code", "data"}
                /\ res[r].body.of = [ name |-> e.name, message |-> e.message,
                                      code |-> e.code, data |-> e.data ]
                /\ res[r].statusCode = IF e.code # None THEN e.code[1] ELSE 500
                /\ "request-id" \in DOMAIN res[r].headers <=> e.ctx # None

\* C15: no error of a request leaves the handler: the promise callAction
\* returns is never rejected.
C15_NoErrorEscapes ==
    \A r \in Requests :
        Arrived(r) =>
            /\ pc[r] # "unhandled"
            /\ \A i \in DOMAIN events[r] :
                  events[r][i].ev = "ErrorMapper" => events[r][i].arg = "sent"

\* The stages of callAction in their order, by the event each one logs.
StageOrder ==
    << "AliasResolve", "WhitelistCheck", "BodyParse", "ParamMerge", "getAction",
       "ContextCreate", "Authorize", "Invoke" >>

IsStage(e) == \E i \in DOMAIN StageOrder : StageOrder[i] = e.ev

\* The event reports the failure of a stage.
IsFailure(e) ==
    \/ e.ev \in {"parserFail", "authFailed", "invokeFailed", "encodeFailed"}
    \/ e.ev = "WhitelistCheck" /\ ~e.arg
    \/ e.ev = "authReturn" /\ e.arg = None
    \/ e.ev = "getAction" /\ e.arg \notin DOMAIN BrokerActions

\* C16: the stages a request went through are a prefix of the stage order,
\* after a failure only the error mapping runs, and a request that ended
\* saw exactly one of a completed encoding and the error mapping.
C16_StagesInOrder ==
    \A r \in Requests :
        Dispatched(r) =>
            LET ev      == events[r]
                stages  == SelectSeq(ev, IsStage)
                endings == {i \in DOMAIN ev : ev[i].ev \in {"Encode", "ErrorMapper"}}
            IN  /\ Len(stages) <= Len(StageOrder)
                /\ \A i \in DOMAIN stages : stages[i].ev = StageOrder[i]
                /\ \A i \in DOMAIN ev :
                      IsFailure(ev[i]) =>
                          \A j \in DOMAIN ev :
                              j > i => ev[j].ev \in {"ErrorMapper", "metricFinish"}
                /\ Cardinality(endings) <= 1
                /\ pc[r] \in {"done", "unhandled"} => Cardinality(endings) = 1
                /\ \A i \in endings : \A j \in DOMAIN ev : j > i => ev[j].ev = "metricFinish"

\* The request path without one trailing slash, and what is left of it
\* after the prefix of the matched route and one leading slash.
PathWithoutQuery(r) ==
    LET url   == req[r].url
        marks == {i \in 2..Len(url) : url[i] = "?"}
    IN  IF marks = {} THEN url
        ELSE SubSeq(url, 1, (CHOOSE i \in marks : \A j \in marks : i <= j) - 1)

TrimmedPath(r) ==
    LET p == PathWithoutQuery(r)
    IN  IF p # <<>> /\ p[Len(p)] = "/" THEN SubSeq(p, 1, Len(p) - 1) ELSE p

PathRemainder(r) ==
    LET p    == TrimmedPath(r)
        rest == SubSeq(p, Len(RouteOf(r).path) + 1, Len(p))
    IN  IF rest # <<>> /\ rest[1] = "/" THEN Tail(rest) ELSE rest

\* C17: the action name handed to callAction is the remainder of the path
\* with its first "~" turned into "$", every "/" into ".", and every other
\* character, later "~" included, left as it is.
C17_CandidateActionName ==
    \A r \in Requests :
        Dispatched(r) /\ pc[r] = "AliasResolve" =>
            LET rest == PathRemainder(r)
                name == actionName[r]
            IN  /\ Len(name) = Len(rest)
                /\ \A k \in DOMAIN rest :
                      name[k] =
                          IF rest[k] = "/" THEN "."
                          ELSE IF rest[k] = "~" /\ \A j \in 1..(k - 1) : rest[j] # "~" THEN "$"
                          ELSE rest[k]

\* C17's case: a path with two "~", a trailing slash and a query string.
C17_Witness ==
    \E r \in Requests :
        /\ Dispatched(r) /\ pc[r] = "AliasResolve"
        /\ PathRemainder(r) = <<"~", "node", "/", "~", "x">>
        /\ query[r] # None
        /\ actionName[r] = <<"$", "node", ".", "~", "x">>

Local(r) ==
    << pc[r], req[r], res[r], route[r], actionName[r], query[r], params[r],
       endpoint[r], ctx[r], pending[r], parsing[r], events[r] >>

\* A step touches one request at most and never the route table.
OneRequestSteps ==
    /\ routes' = routes /\ serve' = serve
    /\ \E r \in Requests : \A s \in Requests \ {r} : Local(s)' = Local(s)

\* What a request holds comes from its own URL, query, body and context.
OwnState(r) ==
    /\ ctx[r].id \in {None, Some(ContextId(r))}
    /\ ctx[r].id # None =>
          /\ ctx[r].params = params[r]
          /\ \A s \in Requests \ {r} : ctx[s].id # ctx[r].id
    /\ endpoint[r] # None => endpoint[r][1].name = actionName[r]
    /\ \A i \in DOMAIN events[r] :
          events[r][i].ev = "Invoke" =>
              /\ events[r][i].arg.endpoint = actionName[r]
              /\ events[r][i].arg.params = MergeParams(query[r], req[r].body)
    /\ "request-id" \in DOMAIN res[r].headers =>
          res[r].headers["request-id"] = ContextId(r)
    /\ pc[r] = "done" /\ res[r].body.kind = "error" =>
          res[r].body.of = ErrorObject(pending[r])

\* C19: with requests in flight together every step changes one request
\* only and leaves the route table alone, each request keeps its own action
\* name, params, endpoint and context, and what holds for the name, the
\* params and the encoding of a request handled alone holds for each.
C19_RequestsAreIsolated ==
    /\ [](\A r \in Requests : OwnState(r))
    /\ [](C17_CandidateActionName /\ C10_BodyOverlaysQuery /\ C12_EncodingIsTotal)
    /\ [][OneRequestSteps]_vars

\* C19's case: two requests wait for their actions at the same time, each
\* with params and a context of its own.
C19_Witness ==
    \E r, s \in Requests :
        /\ r # s
        /\ pc[r] = "Invoking" /\ pc[s] = "Invoking"
        /\ params[r] # params[s]
        /\ actionName[r] # actionName[s]

====
